---- MODULE Spec2Model ----
(***************************************************************************)
(* Model of the insight reconciliation of the journaling app:              *)
(* lib/insights.ts (generateInsights, getInsights,                         *)
(* insightsGeneratedThisWeek) and the InsightsScreen that drives it.       *)
(*                                                                         *)
(* The theme store is the `insights` table.  A run of generateInsights is  *)
(* a sequence of steps, one per await of the source; everything the        *)
(* source does synchronously between two awaits is part of one step.       *)
(* Of the state of the screen, the model keeps what decides whether the    *)
(* generate button can be pressed; the list on display is not part of it.  *)
(***************************************************************************)
EXTENDS Integers, Sequences, FiniteSets, TLC

(***************************************************************************)
(* Program constants                                                       *)
(***************************************************************************)
\* `existingThemes.length >= 10`
ThemeLimit == 10
\* `entries.length < 5`
MinEntries == 5
\* `newTheme.prominence_score || 50`
DefaultScore == 50
\* CHECK (prominence_score >= 1 AND prominence_score <= 100)
MinProminence == 1
MaxProminence == 100

(***************************************************************************)
(* Bounds of the model                                                     *)
(***************************************************************************)
\* longest theme list the extraction service returns
MaxCandidates == 2
\* writes that fail (network, server) in one behaviour
MaxStoreErrors == 1
\* days the clock advances after the first day
MaxTicks == 1
\* themes the user deletes in one behaviour
MaxDeletes == 1

\* getDay() of a Monday (0 is Sunday); days are counted from a Sunday, day 0
Monday == 1
DaysPerWeek == 7
GetDay(d) == d % DaysPerWeek

\* The first day of a behaviour: the Monday of the second week.
FirstDay == DaysPerWeek + Monday
\* last_updated of the themes stored before the behaviour: the Monday before.
LastWeek == FirstDay - DaysPerWeek

Screens == {"s1", "s2"}
Users == {"u1", "u2"}
NoUser == "nobody"

(***************************************************************************)
(* Strings.  A title is a sequence of characters; toLowerCase maps every   *)
(* character to its lower-case form.                                       *)
(***************************************************************************)
LowerChar(c) ==
  CASE c = "T" -> "t"
    [] c = "X" -> "x"
    [] OTHER -> c

ToLowerCase(t) == [i \in 1..Len(t) |-> LowerChar(t[i])]

Digits == <<"1", "2", "3", "4", "5", "6", "7", "8", "9", "0">>

\* titles of the themes stored before the behaviour: t1, t2, ..., t0
StoredTitle(i) == <<"t", Digits[i]>>

(***************************************************************************)
(* Optional numbers: a JSON field that may be missing.  Undefined is the   *)
(* missing field, Num(n) the number n.                                     *)
(***************************************************************************)
Undefined == <<>>
Num(n) == <<n>>
\* a JSON string in the place of a number, one that converts to NaN ("high")
NotANumber == <<"NaN", "high">>
IsNumber(x) == Len(x) = 1

\* a filter that only asks for a number
AnyNumber(x) == IsNumber(x)

\* `x && x > 0` of the filter: undefined and 0 are falsy, NaN > 0 is false
Positive(x) == IsNumber(x) /\ x[1] # 0 /\ x[1] > 0

\* `x || d`
OrElse(x, d) == IF x = Undefined \/ x[1] = 0 THEN d ELSE x[1]

StoredScores == {20, 50}

\* a candidate theme of the analysis
NewTheme(t, sc) ==
  [title |-> t, summary |-> <<"about", t, sc>>, quotes |-> <<<<"quote", t>>>>,
   prominence_score |-> sc]

\* the themes the extraction service returns: two that match a stored title
\* (one of them in another case), two new ones whose titles differ in case
\* only, a third new one, and one without a score
CandidateThemes ==
  {NewTheme(<<"T", "1">>, Num(50)), NewTheme(<<"t", "2">>, Num(20)),
   NewTheme(<<"x">>, Num(50)), NewTheme(<<"X">>, Num(50)),
   NewTheme(<<"y">>, Num(50)), NewTheme(<<"x">>, Undefined)}

\* a candidate theme without a title
Untitled(sc) ==
  [summary |-> <<"about", sc>>, quotes |-> <<<<"quote">>>>, prominence_score |-> sc]

\* does the object carry a title (`newTheme.title` is not undefined)
HasTitle(th) == "title" \in DOMAIN th

\* a score above the range of the column
TooHigh == MaxProminence + 50

\* what the extraction service may return when it does not keep to its
\* contract: a theme without a title, scores that are no number, zero,
\* negative, missing or above 100, next to a theme that is in order
AnyThemes ==
  {Untitled(Num(50)), NewTheme(<<"x">>, NotANumber),
   NewTheme(<<"T", "1">>, Num(0)), NewTheme(<<"t", "2">>, Num(0 - 5)),
   NewTheme(<<"T", "1">>, Undefined),
   NewTheme(<<"T", "1">>, Num(TooHigh)), NewTheme(<<"y">>, Num(TooHigh)),
   NewTheme(<<"t", "2">>, Num(20))}

RECURSIVE SeqsUpTo(_, _)
SeqsUpTo(S, n) ==
  IF n = 0 THEN {<<>>}
  ELSE LET shorter == SeqsUpTo(S, n - 1)
       IN shorter \cup {Append(q, x) : q \in {p \in shorter : Len(p) = n - 1}, x \in S}

\* the lists of themes the extraction service may find in a journal: no theme
\* is listed twice (two themes may still share a title up to case or score)
ThemeLists ==
  {q \in SeqsUpTo(CandidateThemes, MaxCandidates) :
     \A i, j \in 1..Len(q) : i # j => q[i] # q[j]}

\* the same, for a service that does not keep to its contract
AnyThemeLists ==
  {q \in SeqsUpTo(AnyThemes, MaxCandidates) :
     \A i, j \in 1..Len(q) : i # j => q[i] # q[j]}

\* What supabase.functions.invoke('gemini-proxy') and the parse make of the
\* answer: an error of the call, a text without a JSON object, a JSON object
\* without themes, or a JSON object with the themes found in the journal.
Responses(found) ==
  {[kind |-> k, themes |-> <<>>] : k \in {"apiError", "noJson", "badJson", "noThemesField"}}
  \cup {[kind |-> "themes", themes |-> found]}

(***************************************************************************)
(* The theme store                                                         *)
(***************************************************************************)
\* a row of `insights` as it is before the behaviour
StoredTheme(i, sc, u) ==
  [id |-> i, user_id |-> u, title |-> StoredTitle(i), summary |-> <<"old">>,
   quotes |-> <<>>, prominence_score |-> sc, last_updated |-> LastWeek,
   created_at |-> i]

\* the rows whose score varies between initial stores; the others score 60
HighScore == 50 + 10
VaryingRows == {1, 2}
InitialScores == [VaryingRows -> StoredScores]
InitialScore(f, i) == IF i \in VaryingRows THEN f[i] ELSE HighScore
StoreSizes == {0, ThemeLimit - 1, ThemeLimit}
InitialStores(u) ==
  {{StoredTheme(i, InitialScore(f, i), u) : i \in 1..n} : n \in StoreSizes, f \in InitialScores}

VARIABLES
  store,        \* the rows of the insights table
  journalThemes, \* the themes the extraction service finds in the user's journal
  nextId,       \* the id (and creation order) the next inserted row gets
  clock,        \* the current day
  storeErrors,  \* writes for which the store has reported an error so far
  deletes,      \* themes the user has deleted so far
  user,         \* per screen: useAuth().user, or NoUser
  loading,      \* per screen: useState `loading`
  generating,   \* per screen: useState `generating`
  generatedThisWeek, \* per screen: useState `generatedThisWeek`
  loadPending,  \* per screen: a loadInsights call awaits getInsights
  checkPending, \* per screen: a checkWeeklyStatus call awaits its query
  handler,      \* per screen: where handleGenerateInsights stands
  run           \* per screen: the state of its generateInsights call

vars == <<store, journalThemes, nextId, clock, storeErrors, deletes, user, loading,
          generating, generatedThisWeek, loadPending, checkPending, handler, run>>

\* the state of a generateInsights call: where it stands, its locals, and the
\* store writes it has made (writes: one record per request sent).
\* afterCleanRun is history: the call before this one, from the same screen,
\* returned and the store accepted each of its writes.
noRun ==
  [pc |-> "none", existingThemes |-> <<>>, entries |-> 0, invoked |-> FALSE,
   response |-> "none", themes |-> <<>>, sortedNewThemes |-> <<>>, idx |-> 1,
   updatedThemes |-> <<>>, newThemes |-> <<>>, now |-> 0, writes |-> <<>>,
   thrown |-> "none", afterCleanRun |-> FALSE]

\* the call returned and the store accepted every write it sent
CleanRun(r) == r.pc = "done" /\ \A i \in 1..Len(r.writes) : r.writes[i].ok

(***************************************************************************)
(* Array helpers                                                           *)
(***************************************************************************)
\* Array.prototype.includes
Includes(seq, x) == \E i \in 1..Len(seq) : seq[i] = x

\* a sort that puts the later of two elements with equal keys first
SortByKeyLastFirst(seq, keys) ==
  LET n == Len(seq)
      rank(i) == Cardinality({j \in 1..n : \/ keys[j] < keys[i]
                                           \/ keys[j] = keys[i] /\ j > i}) + 1
  IN [p \in 1..n |-> seq[CHOOSE i \in 1..n : rank(i) = p]]

\* Array.prototype.sort with the comparator (a, b) => key(a) - key(b), where
\* keys[i] is the key of seq[i]; the sort is stable: elements with equal keys
\* keep their order
SortByKey(seq, keys) ==
  LET n == Len(seq)
      rank(i) == Cardinality({j \in 1..n : \/ keys[j] < keys[i]
                                           \/ keys[j] = keys[i] /\ j < i}) + 1
  IN [p \in 1..n |-> seq[CHOOSE i \in 1..n : rank(i) = p]]

(***************************************************************************)
(* Queries and writes of the insights table                                *)
(***************************************************************************)
\* .order('prominence_score', desc).order('created_at', asc)
ComesBefore(a, b) ==
  \/ a.prominence_score > b.prominence_score
  \/ a.prominence_score = b.prominence_score /\ a.created_at < b.created_at

\* the rows in that order: the row at place p has p - 1 rows before it
Ordered(rows) ==
  [p \in 1..Cardinality(rows) |->
     CHOOSE r \in rows : Cardinality({q \in rows : ComesBefore(q, r)}) = p - 1]

\* a query that forgets the filter on user_id
GetInsightsOfAll(st, u) == Ordered(st)

\* getInsights: the user's rows, highest score first, oldest first among equals
GetInsights(st, u) == Ordered({r \in st : r.user_id = u})

\* a constraint without the upper end
CheckScoreAtLeastOne(v) == v >= MinProminence

\* the check constraint of the prominence_score column
CheckProminenceScore(v) == v >= MinProminence /\ v <= MaxProminence

\* an update that stores the changed row under a new id
UpdateByReinsert(st, id, patch) ==
  {IF r.id = id
     THEN [f \in DOMAIN r |-> IF f \in DOMAIN patch THEN patch[f]
                              ELSE IF f = "id" THEN r.id + ThemeLimit * ThemeLimit
                              ELSE r[f]]
     ELSE r : r \in st}

\* an update that stamps last_updated on the other rows too
UpdateByIdStampingAll(st, id, patch) ==
  {IF r.id = id
     THEN [f \in DOMAIN r |-> IF f \in DOMAIN patch THEN patch[f] ELSE r[f]]
     ELSE [r EXCEPT !.last_updated = patch.last_updated] : r \in st}

\* .update(patch).eq('id', id): the row with that id gets the fields of patch
UpdateById(st, id, patch) ==
  {IF r.id = id
     THEN [f \in DOMAIN r |-> IF f \in DOMAIN patch THEN patch[f] ELSE r[f]]
     ELSE r : r \in st}

\* .delete().eq('id', id): the row with that id goes, no other
DeleteById(st, id) == {r \in st : r.id # id}

\* .insert(payload): a new row with a fresh id and created_at
InsertRow(st, id, payload) ==
  st \cup {[id |-> id, user_id |-> payload.user_id, title |-> payload.title,
            summary |-> payload.summary, quotes |-> payload.quotes,
            prominence_score |-> payload.prominence_score,
            last_updated |-> payload.last_updated, created_at |-> id]}

(***************************************************************************)
(* insightsGeneratedThisWeek                                               *)
(***************************************************************************)
\* a computation that forgets that getDay() is 0 on a Sunday
DaysToMondayOfWeekday(d) == GetDay(d) - 1

\* `dayOfWeek === 0 ? 6 : dayOfWeek - 1`
DaysToMonday(d) == IF GetDay(d) = 0 THEN 6 ELSE GetDay(d) - 1
StartOfWeek(d) == d - DaysToMonday(d)

InsightsGeneratedThisWeek(st, u, today) ==
  LET mine == {r \in st : r.user_id = u}
  IN /\ mine # {}
     /\ \E r \in mine : /\ \A q \in mine : q.last_updated <= r.last_updated
                        /\ r.last_updated >= StartOfWeek(today)

(***************************************************************************)
(* generateInsights: the synchronous parts                                 *)
(***************************************************************************)
\* a filter that is not followed by the sort
FilteredNewThemes(themes) ==
  SelectSeq(themes, LAMBDA th : Positive(th.prominence_score))

\* the themes the loop goes through: those with a positive score, highest first
SortedNewThemes(themes) ==
  LET kept == SelectSeq(themes, LAMBDA th : Positive(th.prominence_score))
      negScore == [i \in 1..Len(kept) |-> 0 - OrElse(kept[i].prominence_score, 0)]
  IN SortByKey(kept, negScore)

\* a lookup that forgets to lower-case the title of the new theme
ExistingByExactTitle(existing, title) ==
  LET hits == {i \in 1..Len(existing) : ToLowerCase(existing[i].title) = title}
  IN IF hits = {} THEN <<>>
     ELSE <<existing[CHOOSE i \in hits : \A j \in hits : j <= i]>>

\* existingThemesByTitle.get(title.toLowerCase()): a later array element with
\* the same key replaces an earlier one in the Map.  <<>> when there is none.
ExistingByTitle(existing, title) ==
  LET hits == {i \in 1..Len(existing) :
                 ToLowerCase(existing[i].title) = ToLowerCase(title)}
  IN IF hits = {} THEN <<>>
     ELSE <<existing[CHOOSE i \in hits : \A j \in hits : j <= i]>>

\* existingThemes.filter(not updated).sort(by score, ascending)
ThemesToReplace(existing, updatedThemes) ==
  LET left == SelectSeq(existing, LAMBDA th : ~Includes(updatedThemes, th.title))
      score == [i \in 1..Len(left) |-> left[i].prominence_score]
  IN SortByKey(left, score)

\* a limit check that is off by one
AtLimitOneEarly(existing) == Len(existing) >= ThemeLimit - 1

\* `existingThemes.length >= 10`
AtLimit(existing) == Len(existing) >= ThemeLimit

\* `newTheme.prominence_score > themeToReplace.prominence_score`
HigherProminence(newTheme, old) ==
  OrElse(newTheme.prominence_score, 0) > old.prominence_score

\* what the loop body does with newTheme: the branch it takes and the row
\* (id) it writes to (0: none or a new row)
Decision(r, newTheme) ==
  LET hit == ExistingByTitle(r.existingThemes, newTheme.title)
      ttr == ThemesToReplace(r.existingThemes, r.updatedThemes)
  IN IF hit # <<>> THEN [branch |-> "update", id |-> hit[1].id]
     ELSE IF AtLimit(r.existingThemes)
       THEN IF Len(ttr) = 0 THEN [branch |-> "none", id |-> 0]
            ELSE IF HigherProminence(newTheme, ttr[1])
              THEN [branch |-> "replace", id |-> ttr[1].id]
              ELSE [branch |-> "skip", id |-> 0]
       ELSE [branch |-> "insert", id |-> 0]

\* an update that writes the title of the candidate too
UpdatePayloadWithTitle(newTheme, now) ==
  [title |-> newTheme.title, summary |-> newTheme.summary, quotes |-> newTheme.quotes,
   prominence_score |-> OrElse(newTheme.prominence_score, DefaultScore),
   last_updated |-> now]

\* an update that raises the score it is given by one
UpdatePayloadRaisingScore(newTheme, now) ==
  [summary |-> newTheme.summary, quotes |-> newTheme.quotes,
   prominence_score |-> OrElse(newTheme.prominence_score, DefaultScore) + 1,
   last_updated |-> now]

\* the payloads of the three writes
UpdatePayload(newTheme, now) ==
  [summary |-> newTheme.summary, quotes |-> newTheme.quotes,
   prominence_score |-> OrElse(newTheme.prominence_score, DefaultScore),
   last_updated |-> now]

\* a replacement that leaves the title of the row as it is
ReplacePayloadWithoutTitle(newTheme, now) ==
  [summary |-> newTheme.summary, quotes |-> newTheme.quotes,
   prominence_score |-> OrElse(newTheme.prominence_score, DefaultScore),
   last_updated |-> now]

\* the payload of the replacement
ReplacePayload(newTheme, now) ==
  [title |-> newTheme.title, summary |-> newTheme.summary, quotes |-> newTheme.quotes,
   prominence_score |-> OrElse(newTheme.prominence_score, DefaultScore),
   last_updated |-> now]

InsertPayload(u, newTheme, now) ==
  [user_id |-> u, title |-> newTheme.title, summary |-> newTheme.summary,
   quotes |-> newTheme.quotes,
   prominence_score |-> OrElse(newTheme.prominence_score, DefaultScore),
   last_updated |-> now]

\* an analysis that takes an empty list of themes for a result
AnalysisErrorEmptyAccepted(resp) ==
  CASE resp.kind = "apiError" -> "AI analysis failed"
    [] resp.kind \in {"noJson", "badJson"} -> "Failed to parse insights from AI response"
    [] resp.kind = "noThemesField" -> "No themes identified in the analysis"
    [] OTHER -> "none"

\* an analysis that swallows the parse error and goes on without themes
AnalysisErrorParseSwallowed(resp) ==
  CASE resp.kind = "apiError" -> "AI analysis failed"
    [] resp.kind = "noThemesField" -> "No themes identified in the analysis"
    [] resp.kind = "themes" /\ Len(resp.themes) = 0 -> "No themes identified in the analysis"
    [] OTHER -> "none"

\* what the code between the answer of the proxy and the loop throws, if
\* anything
AnalysisError(resp) ==
  CASE resp.kind = "apiError" -> "AI analysis failed"
    [] resp.kind \in {"noJson", "badJson"} -> "Failed to parse insights from AI response"
    [] resp.kind = "noThemesField" \/ Len(resp.themes) = 0 ->
         "No themes identified in the analysis"
    [] OTHER -> "none"

\* a gate that lets four entries pass
TooFewEntriesBelowFour(n) == n < MinEntries - 1

\* `!entries || entries.length < 5`
TooFewEntries(n) == n < MinEntries

\* does the store report an error for a write of this score
WriteRejected(score, fails) == fails \/ ~CheckProminenceScore(score)

(***************************************************************************)
(* The screen                                                              *)
(***************************************************************************)
\* isStartOfWeek
IsStartOfWeek(today) == GetDay(today) = Monday

\* shouldShowNewInsights
ShouldShowNewInsights(s) == IsStartOfWeek(clock) /\ ~generatedThisWeek[s]

\* the generate button is on the screen and enabled
CanPress(s) ==
  /\ user[s] # NoUser
  /\ ~loading[s]
  /\ ShouldShowNewInsights(s)
  /\ ~generating[s]

\* the state in which a screen is mounted: the effect has called loadInsights
\* and checkWeeklyStatus when there is a user
InitScreens(users) ==
  /\ user = users
  /\ loading = [s \in Screens |-> TRUE]
  /\ generating = [s \in Screens |-> FALSE]
  /\ generatedThisWeek = [s \in Screens |-> FALSE]
  /\ loadPending = [s \in Screens |-> users[s] # NoUser]
  /\ checkPending = [s \in Screens |-> users[s] # NoUser]
  /\ handler = [s \in Screens |-> "idle"]
  /\ run = [s \in Screens |-> noRun]

InitStore ==
  /\ store \in InitialStores("u1")
  /\ journalThemes \in ThemeLists \cup AnyThemeLists
  /\ nextId = ThemeLimit + 1
  /\ clock = FirstDay
  /\ storeErrors = 0
  /\ deletes = 0

\* one screen, of user u1, and an extraction service that keeps to its contract
Init == InitStore /\ journalThemes \in ThemeLists /\ InitScreens([s \in Screens |-> IF s = "s1" THEN "u1" ELSE NoUser])

\* a write may fail while the budget of failed writes lasts
MayFail(fails) == fails => storeErrors < MaxStoreErrors
Failed(fails) == storeErrors' = IF fails THEN storeErrors + 1 ELSE storeErrors

Tick ==
  /\ clock < FirstDay + MaxTicks
  /\ clock' = clock + 1
  /\ UNCHANGED <<store, journalThemes, nextId, storeErrors, deletes, user, loading, generating,
                 generatedThisWeek, loadPending, checkPending, handler, run>>

\* loadInsights after its await; when handleGenerateInsights awaits it, the
\* rest of the handler follows
LoadInsightsDone(s) ==
  /\ loadPending[s]
  /\ loading' = [loading EXCEPT ![s] = FALSE]
  /\ loadPending' = [loadPending EXCEPT ![s] = FALSE]
  /\ IF handler[s] = "load"
       THEN /\ generatedThisWeek' = [generatedThisWeek EXCEPT ![s] = TRUE]
            /\ generating' = [generating EXCEPT ![s] = FALSE]
            /\ handler' = [handler EXCEPT ![s] = "idle"]
       ELSE UNCHANGED <<generatedThisWeek, generating, handler>>
  /\ UNCHANGED <<store, journalThemes, nextId, clock, storeErrors, deletes, user,
                 checkPending, run>>

\* checkWeeklyStatus after its await
CheckWeeklyStatusDone(s) ==
  /\ checkPending[s]
  /\ \E fails \in BOOLEAN :
       /\ generatedThisWeek' =
            [generatedThisWeek EXCEPT ![s] =
               ~fails /\ InsightsGeneratedThisWeek(store, user[s], clock)]
  /\ checkPending' = [checkPending EXCEPT ![s] = FALSE]
  /\ UNCHANGED <<store, journalThemes, nextId, clock, storeErrors, deletes, user,
                 loading, generating, loadPending, handler, run>>

\* handleGenerateInsights up to the first await of generateInsights
Press(s) ==
  /\ CanPress(s)
  /\ generating' = [generating EXCEPT ![s] = TRUE]
  /\ handler' = [handler EXCEPT ![s] = "generate"]
  /\ run' = [run EXCEPT ![s] = [noRun EXCEPT !.pc = "getInsights",
                                             !.afterCleanRun = CleanRun(run[s])]]
  /\ UNCHANGED <<store, journalThemes, nextId, clock, storeErrors, deletes, user,
                 loading, generatedThisWeek, loadPending, checkPending>>

\* a handler whose catch is not followed by the finally block
ThrowsWithoutFinally(s, r, message) ==
  /\ run' = [run EXCEPT ![s] = [r EXCEPT !.pc = "failed", !.thrown = message]]
  /\ handler' = [handler EXCEPT ![s] = "idle"]
  /\ UNCHANGED <<generating, loading, loadPending>>

\* generateInsights throws: the handler catches, alerts and clears generating
Throws(s, r, message) ==
  /\ run' = [run EXCEPT ![s] = [r EXCEPT !.pc = "failed", !.thrown = message]]
  /\ generating' = [generating EXCEPT ![s] = FALSE]
  /\ handler' = [handler EXCEPT ![s] = "idle"]
  /\ UNCHANGED <<loading, loadPending>>

\* generateInsights returns: the handler calls loadInsights and awaits it
Returns(s, r) ==
  /\ run' = [run EXCEPT ![s] = [r EXCEPT !.pc = "done"]]
  /\ loading' = [loading EXCEPT ![s] = TRUE]
  /\ loadPending' = [loadPending EXCEPT ![s] = TRUE]
  /\ handler' = [handler EXCEPT ![s] = "load"]
  /\ UNCHANGED generating

\* generateInsights goes on
Continues(s, r) ==
  /\ run' = [run EXCEPT ![s] = r]
  /\ UNCHANGED <<loading, loadPending, handler, generating>>

\* a loop that throws when the store reports an error for the last write
LoopOnUnlessError(s, r) ==
  IF r.writes # <<>> /\ ~r.writes[Len(r.writes)].ok /\ r.writes[Len(r.writes)].theme = r.idx - 1
    THEN Throws(s, r, "write failed")
    ELSE IF r.idx > Len(r.sortedNewThemes)
      THEN Returns(s, r) ELSE Continues(s, [r EXCEPT !.pc = "loop"])

\* the loop goes on with the next theme, or the run returns after the last
LoopOn(s, r) ==
  IF r.idx > Len(r.sortedNewThemes) THEN Returns(s, r) ELSE Continues(s, [r EXCEPT !.pc = "loop"])

\* `existingThemes = await getInsights(userId)`
GetExisting(s) ==
  /\ run[s].pc = "getInsights"
  /\ \E fails \in BOOLEAN :
       /\ IF fails
            THEN Throws(s, run[s], "Failed to fetch insights")
            ELSE Continues(s, [run[s] EXCEPT !.pc = "entries",
                                 !.existingThemes = GetInsights(store, user[s])])
  /\ UNCHANGED <<store, journalThemes, nextId, clock, storeErrors, deletes, user,
                 generatedThisWeek, checkPending>>

\* what the query of journal_entries answers: an error, or so many entries
EntryCounts == {0, MinEntries - 1, MinEntries}

\* the query of the individual journal entries, and the call of the proxy
\* when there are enough
FetchEntries(s) ==
  /\ run[s].pc = "entries"
  /\ \E failed \in BOOLEAN, n \in EntryCounts :
       LET r == [run[s] EXCEPT !.entries = n]
       IN IF failed
            THEN n = 0 /\ Throws(s, r, "Failed to fetch journal entries")
            ELSE IF TooFewEntries(n)
              THEN Throws(s, r, "Need at least 5 journal entries")
              ELSE Continues(s, [r EXCEPT !.pc = "analysis", !.invoked = TRUE])
  /\ UNCHANGED <<store, journalThemes, nextId, clock, storeErrors, deletes, user,
                 generatedThisWeek, checkPending>>

\* the answer of the proxy, the parse, the filter and sort, up to the first
\* write of the loop
ReceiveAnalysis(s) ==
  /\ run[s].pc = "analysis"
  /\ \E resp \in Responses(journalThemes) :
       LET r == [run[s] EXCEPT !.response = resp.kind, !.themes = resp.themes]
       IN IF AnalysisError(resp) # "none"
            THEN Throws(s, r, AnalysisError(resp))
            ELSE LoopOn(s, [r EXCEPT !.sortedNewThemes = SortedNewThemes(resp.themes),
                              !.now = clock, !.idx = 1])
  /\ UNCHANGED <<store, journalThemes, nextId, clock, storeErrors, deletes, user,
                 generatedThisWeek, checkPending>>

\* one pass of the loop body
ProcessTheme(s) ==
  /\ run[s].pc = "loop"
  /\ HasTitle(run[s].sortedNewThemes[run[s].idx])
  /\ LET r == run[s]
         newTheme == r.sortedNewThemes[r.idx]
         d == Decision(r, newTheme)
         score == OrElse(newTheme.prominence_score, DefaultScore)
     IN \E fails \in BOOLEAN :
          LET error == WriteRejected(score, fails)
              entry(id) == [op |-> d.branch, id |-> id, theme |-> r.idx, ok |-> ~error]
          IN
          /\ MayFail(fails)
          /\ d.branch \in {"skip", "none"} => ~fails
          /\ Failed(fails)
          /\ CASE d.branch = "update" ->
                    /\ store' = IF error THEN store
                                ELSE UpdateById(store, d.id, UpdatePayload(newTheme, r.now))
                    /\ nextId' = nextId
                    /\ LoopOn(s, [r EXCEPT !.idx = @ + 1,
                                    !.writes = Append(@, entry(d.id)),
                                    !.updatedThemes =
                                       IF error THEN @ ELSE Append(@, newTheme.title)])
               [] d.branch = "replace" ->
                    /\ store' = IF error THEN store
                                ELSE UpdateById(store, d.id, ReplacePayload(newTheme, r.now))
                    /\ nextId' = nextId
                    /\ LoopOn(s, [r EXCEPT !.idx = @ + 1,
                                    !.writes = Append(@, entry(d.id)),
                                    !.newThemes =
                                       IF error THEN @ ELSE Append(@, newTheme.title)])
               [] d.branch = "insert" ->
                    /\ store' = IF error THEN store
                                ELSE InsertRow(store, nextId,
                                               InsertPayload(user[s], newTheme, r.now))
                    /\ nextId' = IF error THEN nextId ELSE nextId + 1
                    /\ LoopOn(s, [r EXCEPT !.idx = @ + 1,
                                    !.writes = Append(@, entry(IF error THEN 0 ELSE nextId)),
                                    !.newThemes =
                                       IF error THEN @ ELSE Append(@, newTheme.title)])
               [] OTHER ->
                    /\ UNCHANGED <<store, nextId>>
                    /\ LoopOn(s, [r EXCEPT !.idx = @ + 1])
  /\ UNCHANGED <<journalThemes, clock, deletes, user, generatedThisWeek, checkPending>>

\* `newTheme.title.toLowerCase()` of a theme without a title: a TypeError,
\* which the catch of generateInsights logs and throws on
ProcessUntitled(s) ==
  /\ run[s].pc = "loop"
  /\ ~HasTitle(run[s].sortedNewThemes[run[s].idx])
  /\ Throws(s, run[s], "TypeError")
  /\ UNCHANGED <<store, journalThemes, nextId, clock, storeErrors, deletes, user,
                 generatedThisWeek, checkPending>>

\* onRefresh: pull to refresh calls loadInsights and checkWeeklyStatus
Refresh(s) ==
  /\ user[s] # NoUser
  /\ ~loading[s]
  /\ loading' = [loading EXCEPT ![s] = TRUE]
  /\ loadPending' = [loadPending EXCEPT ![s] = TRUE]
  /\ checkPending' = [checkPending EXCEPT ![s] = TRUE]
  /\ UNCHANGED <<store, journalThemes, nextId, clock, storeErrors, deletes, user,
                 generating, generatedThisWeek, handler, run>>

\* confirmDeleteInsight: the user deletes one of the themes on display
ConfirmDeleteInsight(s, id) ==
  /\ user[s] # NoUser
  /\ ~loading[s]
  /\ deletes < MaxDeletes
  /\ \E r \in store : r.id = id /\ r.user_id = user[s]
  /\ store' = DeleteById(store, id)
  /\ deletes' = deletes + 1
  /\ UNCHANGED <<journalThemes, nextId, clock, storeErrors, user, loading, generating,
                 generatedThisWeek, loadPending, checkPending, handler, run>>

\* the screen is left and opened again while nothing is in flight: its state
\* starts over and the effect calls loadInsights and checkWeeklyStatus
Remount(s) ==
  /\ user[s] # NoUser
  /\ handler[s] = "idle"
  /\ ~loadPending[s]
  /\ ~checkPending[s]
  /\ loading' = [loading EXCEPT ![s] = TRUE]
  /\ generating' = [generating EXCEPT ![s] = FALSE]
  /\ generatedThisWeek' = [generatedThisWeek EXCEPT ![s] = FALSE]
  /\ loadPending' = [loadPending EXCEPT ![s] = TRUE]
  /\ checkPending' = [checkPending EXCEPT ![s] = TRUE]
  /\ UNCHANGED <<store, journalThemes, nextId, clock, storeErrors, deletes, user,
                 handler, run>>

Next ==
  \/ Tick
  \/ \E s \in Screens :
       \/ LoadInsightsDone(s)
       \/ CheckWeeklyStatusDone(s)
       \/ Press(s)
       \/ GetExisting(s)
       \/ FetchEntries(s)
       \/ ReceiveAnalysis(s)
       \/ ProcessTheme(s)

Spec == Init /\ [][Next]_vars

\* The same user on two screens (two devices, or a screen mounted again while
\* the run of the earlier one goes on).
\* It starts with a full set, two themes of which score lowest, and a journal
\* with one stored and one new theme.
InitTwoScreens ==
  /\ InitStore
  /\ Cardinality(store) = ThemeLimit
  /\ \A r \in store : r.id \in VaryingRows => r.prominence_score = 20
  /\ journalThemes \in {<<NewTheme(<<"t", "2">>, Num(20)), NewTheme(<<"x">>, Num(50))>>}
  /\ InitScreens([s \in Screens |-> "u1"])

SpecTwoScreens == InitTwoScreens /\ [][Next]_vars

\* An extraction service that does not keep to its contract.  The user has
\* nine or ten themes, the two oldest score 20 and 50.
InitAnyAnswer ==
  /\ InitStore
  /\ Cardinality(store) >= ThemeLimit - 1
  /\ \A r \in store : r.id = 1 => r.prominence_score = 20
  /\ \A r \in store : r.id = 2 => r.prominence_score = 50
  /\ journalThemes \in AnyThemeLists
  /\ InitScreens([s \in Screens |-> IF s = "s1" THEN "u1" ELSE NoUser])

NextAnyAnswer == Next \/ \E s \in Screens : ProcessUntitled(s)

SpecAnyAnswer == InitAnyAnswer /\ [][NextAnyAnswer]_vars

\* The screen with all that the user can do on it: next to the generation,
\* pull to refresh, delete a theme, leave and come back.  The user has nine or
\* ten themes, the two oldest score 20 and 50, and the journal holds a stored
\* theme and a new one.
InitScreen ==
  /\ InitStore
  /\ Cardinality(store) >= ThemeLimit - 1
  /\ \A r \in store : r.id = 1 => r.prominence_score = 20
  /\ \A r \in store : r.id = 2 => r.prominence_score = 50
  /\ journalThemes \in {<<NewTheme(<<"T", "1">>, Num(50)), NewTheme(<<"x">>, Num(50))>>,
                        <<NewTheme(<<"y">>, Num(50))>>}
  /\ InitScreens([s \in Screens |-> IF s = "s1" THEN "u1" ELSE NoUser])

\* the themes the user picks for deletion: one of the two oldest, or the first
\* one created by a run
DeletableIds == {1, 2, ThemeLimit + 1}

NextScreen ==
  \/ Next
  \/ \E s \in Screens :
       \/ Refresh(s)
       \/ Remount(s)
       \/ \E id \in DeletableIds : ConfirmDeleteInsight(s, id)

SpecScreen == InitScreen /\ [][NextScreen]_vars

\* Two users, each on a screen of their own.  The second user has two themes
\* with the titles of the first user's oldest two.
RowsOfSecondUser ==
  {[StoredTheme(i, 20, "u2") EXCEPT !.id = ThemeLimit * ThemeLimit + i,
                                   !.created_at = ThemeLimit * ThemeLimit + i] : i \in 1..2}

InitTwoUsers ==
  /\ \E rows \in InitialStores("u1") :
        /\ Cardinality(rows) >= ThemeLimit - 1
        /\ \A r \in rows : r.id \in VaryingRows => r.prominence_score = 20
        /\ store = rows \cup RowsOfSecondUser
  /\ journalThemes \in {<<NewTheme(<<"T", "1">>, Num(50)), NewTheme(<<"x">>, Num(50))>>,
                        <<NewTheme(<<"t", "2">>, Num(20)), NewTheme(<<"y">>, Num(50))>>}
  /\ nextId = ThemeLimit + 1
  /\ clock = FirstDay
  /\ storeErrors = 0
  /\ deletes = 0
  /\ InitScreens([s \in Screens |-> IF s = "s1" THEN "u1" ELSE "u2"])

SpecTwoUsers == InitTwoUsers /\ [][Next]_vars

(***************************************************************************)
(* An extraction service that answers anything, with awaits that settle    *)
(***************************************************************************)
\* a promise that handleGenerateInsights of screen s awaits settles: a
\* query, the call of the proxy or a write of generateInsights, or getInsights
\* of loadInsights
Settles(s) ==
  \/ GetExisting(s)
  \/ FetchEntries(s)
  \/ ReceiveAnalysis(s)
  \/ ProcessTheme(s)
  \/ ProcessUntitled(s)
  \/ LoadInsightsDone(s)

\* no await of a screen stays pending for ever
PromisesSettle == \A s \in Screens : WF_vars(Settles(s))

\* The user has nine or ten themes, the two oldest score 20 and 50; the
\* journal yields a theme the store rejects followed by one without a title,
\* or one stored theme.
InitLive ==
  /\ InitStore
  /\ Cardinality(store) >= ThemeLimit - 1
  /\ \A r \in store : r.id = 1 => r.prominence_score = 20
  /\ \A r \in store : r.id = 2 => r.prominence_score = 50
  /\ journalThemes \in {<<NewTheme(<<"T", "1">>, Num(TooHigh)), Untitled(Num(50))>>,
                        <<NewTheme(<<"t", "2">>, Num(20))>>}
  /\ InitScreens([s \in Screens |-> IF s = "s1" THEN "u1" ELSE NoUser])

SpecLive == InitLive /\ [][NextAnyAnswer]_vars /\ PromisesSettle

(***************************************************************************)
(* New themes of different scores                                          *)
(***************************************************************************)
\* the themes the extraction service returns: two new ones, the second with a
\* lower score that is still above the lowest stored score, and one that
\* matches a stored title
RankedThemes ==
  {NewTheme(<<"x">>, Num(50)), NewTheme(<<"y">>, Num(50 - 20)),
   NewTheme(<<"T", "1">>, Num(50))}

RankedLists ==
  {l \in SeqsUpTo(RankedThemes, MaxCandidates) :
     \A i, j \in 1..Len(l) : i # j => l[i] # l[j]}

\* the user has nine or ten themes
InitRanked ==
  /\ store \in {st \in InitialStores("u1") : Cardinality(st) >= ThemeLimit - 1}
  /\ journalThemes \in RankedLists
  /\ nextId = ThemeLimit + 1
  /\ clock = FirstDay
  /\ storeErrors = 0
  /\ deletes = 0
  /\ InitScreens([s \in Screens |-> IF s = "s1" THEN "u1" ELSE NoUser])

SpecRanked == InitRanked /\ [][Next]_vars

(***************************************************************************)
(* The weekly check on any day of two weeks                                *)
(***************************************************************************)
\* the days on which the check is made: two whole weeks, Monday to Sunday
CheckDays == FirstDay..(FirstDay + DaysPerWeek + DaysPerWeek - 1)

\* the user has no theme, one, or two, last updated on any day up to today
StoresUpdatedUpTo(today) ==
  {{[StoredTheme(i, DefaultScore, "u1") EXCEPT !.last_updated = f[i]] : i \in 1..n} :
     n \in {0, 1, 2}, f \in [{1, 2} -> 1..today]}

InitWeek ==
  /\ clock \in CheckDays
  /\ store \in StoresUpdatedUpTo(clock)
  /\ journalThemes = <<>>
  /\ nextId = ThemeLimit + 1
  /\ storeErrors = 0
  /\ deletes = 0
  /\ InitScreens([s \in Screens |-> IF s = "s1" THEN "u1" ELSE NoUser])

NextWeek ==
  \E s \in Screens :
     \/ LoadInsightsDone(s)
     \/ CheckWeeklyStatusDone(s)
     \/ Refresh(s)

SpecWeek == InitWeek /\ [][NextWeek]_vars

(***************************************************************************)
(* Vocabulary of the properties                                            *)
(***************************************************************************)
\* letters that differ only in case
CasePairs == {<<"t", "T">>, <<"x", "X">>}
SameLetter(a, b) == a = b \/ <<a, b>> \in CasePairs \/ <<b, a>> \in CasePairs

\* two titles are the same up to letter case
EqualIgnoringCase(a, b) ==
  Len(a) = Len(b) /\ \A i \in 1..Len(a) : SameLetter(a[i], b[i])

\* the rows of a user
ThemesOf(u) == {r \in store : r.user_id = u}

\* the theme the loop of screen s is at
CurrentTheme(s) == run[s].sortedNewThemes[run[s].idx]

\* the theme has no counterpart among the themes the run read
Unmatched(s, th) ==
  \A i \in 1..Len(run[s].existingThemes) :
     ~EqualIgnoringCase(run[s].existingThemes[i].title, th.title)

\* the theme is new to the user: it has no counterpart among the themes the run
\* read, nor among the themes stored now
Fresh(s, th) ==
  /\ Unmatched(s, th)
  /\ \A r \in ThemesOf(user[s]) : ~EqualIgnoringCase(r.title, th.title)

\* the rows the run of s has written so far (requests the store accepted)
Touched(s) ==
  {run[s].writes[i].id : i \in {j \in 1..Len(run[s].writes) : run[s].writes[j].ok}}

\* the stored themes the run of s has neither updated nor replaced so far
Eligible(s) == {r \in ThemesOf(user[s]) : r.id \notin Touched(s)}

\* this step is a pass of the loop body of screen s
LoopStep(s) == run[s].pc = "loop" /\ run'[s].idx = run[s].idx + 1

\* the step sends a write to the store
Wrote(s) == Len(run'[s].writes) = Len(run[s].writes) + 1
LastWrite(s) == run'[s].writes[Len(run'[s].writes)]

\* the run started with a full set
StartedFull(s) == Len(run[s].existingThemes) = ThemeLimit

\* the run has read the stored themes and has not ended
HasReadThemes(s) == run[s].pc \in {"entries", "analysis", "loop"}

\* the next step of the run sends a write to the store
AboutToWrite(s) ==
  /\ run[s].pc = "loop"
  /\ Decision(run[s], CurrentTheme(s)).branch \in {"update", "replace", "insert"}

\* the themes of the sorted list without a counterpart among those read
UnmatchedThemes(s) ==
  {j \in 1..Len(run[s].sortedNewThemes) : Unmatched(s, run[s].sortedNewThemes[j])}

\* the writes the run has sent for theme j of the sorted list
WritesFor(s, j) ==
  {i \in 1..Len(run[s].writes) : run[s].writes[i].theme = j}

\* the ids of the themes the run read
ReadIds(s) == {run[s].existingThemes[i].id : i \in 1..Len(run[s].existingThemes)}

\* the run has ended, one way or the other
Ended(s) == run[s].pc \in {"done", "failed"}

\* C1: a run that starts with at most 10 stored themes never leaves the user
\* with more than 10, neither between its writes nor at its end.
C1_AtMostTenThemes ==
  \A s \in Screens :
     (run[s].pc \in {"loop", "done"} /\ Len(run[s].existingThemes) <= ThemeLimit)
        => Cardinality(ThemesOf(user[s])) <= ThemeLimit

\* C3: with a full set at the start, an unmatched theme whose score is not
\* above the lowest score of the themes still eligible for eviction (those the
\* run has neither updated nor replaced) causes no write.  Stated for themes
\* whose title is new to the user even after the earlier writes of the run.
C3_NoWriteUnlessStrictlyHigher ==
  [][\A s \in Screens :
       (/\ LoopStep(s)
        /\ StartedFull(s)
        /\ Fresh(s, CurrentTheme(s))
        /\ Eligible(s) # {}
        /\ \A r \in Eligible(s) :
              OrElse(CurrentTheme(s).prominence_score, 0) <= r.prominence_score)
       => ~Wrote(s)]_vars

\* C4: every replacement of a run hits a stored theme that the run has not yet
\* updated or replaced, and one of minimal prominence score among those.
\* Stated for the replacements made for a theme whose title is new to the user
\* even after the earlier writes of the run.
C4_ReplacesLowestEligible ==
  [][\A s \in Screens :
       (/\ LoopStep(s)
        /\ Fresh(s, CurrentTheme(s))
        /\ Wrote(s)
        /\ LastWrite(s).op = "replace")
       => \E t \in Eligible(s) :
             /\ t.id = LastWrite(s).id
             /\ \A r \in Eligible(s) : t.prominence_score <= r.prominence_score]_vars

\* C2: two runs for the same user never overlap: while one run has read the
\* stored themes and still has a write to send, no other run for that user
\* has read them and has a write to send too.
C2_RunsNeverOverlap ==
  \A s, t \in Screens :
     (s # t /\ user[s] = user[t])
        => ~(HasReadThemes(s) /\ AboutToWrite(s) /\ HasReadThemes(t) /\ AboutToWrite(t))

\* C5: a theme of the analysis is taken as matching exactly when a theme the
\* run read has the same title up to letter case; a match sends an update to
\* such a theme, which adds no row and changes no title; without a match no
\* update is sent.
C5_MatchIsCaseInsensitiveEquality ==
  [][\A s \in Screens :
       LoopStep(s) =>
         IF Unmatched(s, CurrentTheme(s))
           THEN ~(Wrote(s) /\ LastWrite(s).op = "update")
           ELSE /\ Wrote(s)
                /\ LastWrite(s).op = "update"
                /\ \E i \in 1..Len(run[s].existingThemes) :
                      /\ run[s].existingThemes[i].id = LastWrite(s).id
                      /\ EqualIgnoringCase(run[s].existingThemes[i].title,
                                           CurrentTheme(s).title)
                /\ {r.id : r \in store'} = {r.id : r \in store}
                /\ \A r \in store : \E q \in store' : q.id = r.id /\ q.title = r.title]_vars

C5_Witness ==
  \E s \in Screens : \E i \in 1..Len(run[s].writes) :
     /\ run[s].writes[i].op = "update"
     /\ run[s].writes[i].ok
     /\ \E j \in 1..Len(run[s].existingThemes) :
           /\ run[s].existingThemes[j].id = run[s].writes[i].id
           /\ run[s].existingThemes[j].title
                # run[s].sortedNewThemes[run[s].writes[i].theme].title

\* C6: when the n themes a run read and its k unmatched themes (of those that
\* pass the score filter) make at most 10, the run sends an insert for every
\* unmatched theme and no other write for it; an insert the store accepts adds
\* a new row with the title of the theme, and every theme the run read that no
\* update was sent to is in the store as it was read.
C6_InsertsBelowCapacity ==
  \A s \in Screens :
     (run[s].pc = "done"
        /\ Len(run[s].existingThemes) + Cardinality(UnmatchedThemes(s)) <= 10)
     => /\ \A j \in UnmatchedThemes(s) :
             /\ WritesFor(s, j) # {}
             /\ \A i \in WritesFor(s, j) :
                   /\ run[s].writes[i].op = "insert"
                   /\ run[s].writes[i].ok =>
                        \E r \in ThemesOf(user[s]) :
                           /\ r.id = run[s].writes[i].id
                           /\ r.id \notin ReadIds(s)
                           /\ r.title = run[s].sortedNewThemes[j].title
        /\ \A k \in 1..Len(run[s].existingThemes) :
             (\A i \in 1..Len(run[s].writes) :
                 run[s].writes[i].id # run[s].existingThemes[k].id)
             => run[s].existingThemes[k] \in store

C6_Witness ==
  \E s \in Screens :
     /\ run[s].pc = "done"
     /\ Len(run[s].existingThemes) = 9
     /\ Cardinality(UnmatchedThemes(s)) = 1
     /\ \E i \in 1..Len(run[s].writes) :
           run[s].writes[i].op = "insert" /\ run[s].writes[i].ok
     /\ Cardinality(ThemesOf(user[s])) = 10

\* C7: with fewer than 5 journal entries the run fails, the proxy is never
\* invoked and no write is sent.
C7_TooFewEntriesStopsRun ==
  \A s \in Screens :
     (run[s].pc \in {"analysis", "loop", "done", "failed"} /\ run[s].entries < 5)
        => /\ run[s].pc = "failed"
           /\ ~run[s].invoked
           /\ run[s].writes = <<>>

C7_Witness ==
  \E s \in Screens :
     /\ run[s].pc = "failed"
     /\ run[s].entries = 4
     /\ run[s].thrown = "Need at least 5 journal entries"

C9_NoWriteBeforeParsedAnalysis ==
  \A s \in Screens :
     /\ (run[s].response \in {"apiError", "noJson", "badJson"})
           => run[s].pc = "failed" /\ run[s].writes = <<>>
     /\ run[s].writes # <<>>
           => /\ run[s].invoked
              /\ run[s].response = "themes"
              /\ Len(run[s].themes) > 0
              /\ run[s].entries >= 5

C9_Witness ==
  \E s \in Screens :
     /\ run[s].pc = "failed"
     /\ run[s].response = "badJson"
     /\ run[s].invoked
     /\ run[s].writes = <<>>

\* C10: a run in which the store reported an error for a write does not
\* throw, and when it has returned it has gone through every theme of the
\* sorted list.
C10_WriteErrorDoesNotStopRun ==
  \A s \in Screens :
     (\E i \in 1..Len(run[s].writes) : ~run[s].writes[i].ok)
        => /\ run[s].pc \in {"loop", "done"}
           /\ run[s].thrown = "none"
           /\ run[s].pc = "done" => run[s].idx = Len(run[s].sortedNewThemes) + 1
           /\ run[s].pc = "loop" => run[s].idx <= Len(run[s].sortedNewThemes)

C10_Witness ==
  \E s \in Screens :
     /\ run[s].pc = "done"
     /\ Len(run[s].writes) = 2
     /\ ~run[s].writes[1].ok
     /\ run[s].writes[2].ok
     /\ run[s].writes[2].theme = 2

\* the candidate record is well formed: it has a title and its score is a number
WellFormed(th) == HasTitle(th) /\ IsNumber(th.prominence_score)

\* the theme of the sorted list that write i of the run was sent for
WrittenTheme(s, i) == run[s].sortedNewThemes[run[s].writes[i].theme]

\* C11: a candidate without a title or with a score that is no number is
\* dropped: a run whose answer parsed and holds themes does not fail on it, and
\* no write is sent for it.
C11_MalformedCandidateIsDropped ==
  \A s \in Screens :
     (run[s].response = "themes" /\ Len(run[s].themes) > 0)
        => /\ run[s].thrown = "none"
           /\ \A i \in 1..Len(run[s].writes) : WellFormed(WrittenTheme(s, i))

\* the score of the candidate is missing, zero or negative
NoPositiveScore(th) ==
  \/ th.prominence_score = Undefined
  \/ IsNumber(th.prominence_score) /\ th.prominence_score[1] <= 0

\* C12: no write is ever sent for a candidate whose score is missing, zero or
\* negative, whether or not its title matches a stored theme.
C12_NoWriteWithoutPositiveScore ==
  \A s \in Screens :
     \A i \in 1..Len(run[s].writes) : ~NoPositiveScore(WrittenTheme(s, i))

C12_Witness ==
  \E s \in Screens :
     /\ run[s].pc = "done"
     /\ Len(run[s].writes) = 1
     /\ run[s].writes[1].ok
     /\ \E k \in 1..Len(run[s].themes) :
           /\ HasTitle(run[s].themes[k])
           /\ NoPositiveScore(run[s].themes[k])
           /\ ~Unmatched(s, run[s].themes[k])

\* the rows the run of s has updated so far / replaced so far
UpdatedIds(s) ==
  {run[s].writes[i].id :
     i \in {j \in 1..Len(run[s].writes) :
              run[s].writes[j].ok /\ run[s].writes[j].op = "update"}}
ReplacedIds(s) ==
  {run[s].writes[i].id :
     i \in {j \in 1..Len(run[s].writes) :
              run[s].writes[j].ok /\ run[s].writes[j].op = "replace"}}

\* the step sends a replacement for a theme whose title is new to the user
ReplacesForFresh(s) ==
  /\ LoopStep(s)
  /\ Fresh(s, CurrentTheme(s))
  /\ Wrote(s)
  /\ LastWrite(s).op = "replace"

\* C13: a theme that a matching candidate has updated in a run is never the
\* target of a replacement later in that run, whatever the case of the
\* candidate's title.
C13_UpdatedThemeIsNotEvicted ==
  [][\A s \in Screens :
       ReplacesForFresh(s) => LastWrite(s).id \notin UpdatedIds(s)]_vars

\* C14: a row that a run has replaced is never the target of another
\* replacement later in that run.
C14_ReplacedRowIsNotReplacedAgain ==
  [][\A s \in Screens :
       ReplacesForFresh(s) => LastWrite(s).id \notin ReplacedIds(s)]_vars

\* title, summary, quotes and score of the two rows are the same
SameContent(a, b) ==
  /\ a.title = b.title
  /\ a.summary = b.summary
  /\ a.quotes = b.quotes
  /\ a.prominence_score = b.prominence_score

\* the user has the rows the run of s read, each with the content it was read with
StoredAsRead(s) ==
  /\ {r.id : r \in ThemesOf(user[s])} = ReadIds(s)
  /\ \A k \in 1..Len(run[s].existingThemes) :
        \E r \in ThemesOf(user[s]) :
           r.id = run[s].existingThemes[k].id /\ SameContent(r, run[s].existingThemes[k])

\* every theme of the sorted list has a counterpart among the themes read
AllMatched(s) ==
  \A j \in 1..Len(run[s].sortedNewThemes) : ~Unmatched(s, run[s].sortedNewThemes[j])

\* the run of s is the second of two in succession with the same list of
\* themes, the store accepted every write of both, and it has returned
SecondRunReturned(s) == run[s].afterCleanRun /\ CleanRun(run[s])

\* C15 as the specification states it: the second of two runs in succession
\* with the same list of themes, every write accepted, adds no row and leaves
\* title, summary, quotes and score of every stored theme as they were.
C15_SecondRunChangesNothing ==
  \A s \in Screens : SecondRunReturned(s) => StoredAsRead(s)

\* C15, amended: the same holds when every theme of the list (of those that
\* pass the score filter) matches, up to case, a theme stored when the second
\* run starts; the run then sends updates only.
C15_SecondRunOfMatchesChangesNothing ==
  \A s \in Screens :
     (SecondRunReturned(s) /\ AllMatched(s))
        => /\ StoredAsRead(s)
           /\ \A i \in 1..Len(run[s].writes) : run[s].writes[i].op = "update"

C15_Witness ==
  \E s \in Screens :
     /\ SecondRunReturned(s)
     /\ AllMatched(s)
     /\ Len(run[s].writes) = 2
     /\ \E i \in 1..Len(run[s].writes) : run[s].writes[i].id > ThemeLimit
     /\ StoredAsRead(s)

\* the last run from screen s returned, in the week of the current day
CompletedThisWeek(s) ==
  run[s].pc = "done" /\ StartOfWeek(run[s].now) = StartOfWeek(clock)

\* the step is the start of a run from screen s
StartsRun(s) == run[s].pc # "getInsights" /\ run'[s].pc = "getInsights"

\* C16: once a run has returned for a user, no further run starts for that
\* user before the next Monday, whatever the user does on the screen (refresh,
\* delete a theme, leave and come back).
C16_OneRunPerWeek ==
  [][\A s \in Screens : CompletedThisWeek(s) => ~StartsRun(s)]_vars

\* the ids of the rows in a store
Ids(st) == {r.id : r \in st}

\* the rows of the users other than u
ThemesOfOthers(st, u) == {r \in st : r.user_id # u}

\* C17: a step of a run for one user leaves the rows of every other user as
\* they are, and the themes the run works on are rows of its own user; so the
\* runs of different users do not see or touch each other in any interleaving.
C17_RunsOfUsersAreIndependent ==
  [][\A s \in Screens :
       run'[s] # run[s]
         => /\ ThemesOfOthers(store', user[s]) = ThemesOfOthers(store, user[s])
            /\ \A k \in 1..Len(run'[s].existingThemes) :
                  run'[s].existingThemes[k].user_id = user[s]
            /\ \A i \in 1..Len(run'[s].writes) :
                  run'[s].writes[i].ok =>
                     \E r \in store' : r.id = run'[s].writes[i].id /\ r.user_id = user[s]]_vars

C17_Witness ==
  /\ run["s1"].pc = "loop"
  /\ run["s2"].pc = "loop"
  /\ user["s1"] # user["s2"]
  /\ Len(run["s1"].writes) = 1 /\ run["s1"].writes[1].ok
  /\ Len(run["s2"].writes) = 1 /\ run["s2"].writes[1].ok

\* C18: a step of a run removes no row: every id in the store before it is in
\* the store after it.  A row goes only when the user deletes a theme, and
\* then that one row goes, the others stay as they are and no run moves.
C18_OnlyDeleteRemovesRows ==
  [][\/ Ids(store) \subseteq Ids(store')
     \/ /\ deletes' = deletes + 1
        /\ run' = run
        /\ \E r \in store : store' = store \ {r}]_vars

C18_Witness ==
  /\ deletes = 1
  /\ \E s \in Screens :
        /\ run[s].pc = "done"
        /\ \E i \in 1..Len(run[s].writes) :
              run[s].writes[i].ok /\ run[s].writes[i].op = "replace"
        /\ Cardinality(ThemesOf(user[s])) = ThemeLimit - 1

\* C19: every stored theme has a score from 1 to 100, whatever scores the
\* extraction service returns; a write with a score outside is rejected by
\* the store and the run goes on.
C19_StoredScoresInRange ==
  \A r \in store : r.prominence_score \in 1..100

C19_Witness ==
  \E s \in Screens :
     /\ run[s].pc = "done"
     /\ storeErrors = 0
     /\ Len(run[s].writes) = 2
     /\ ~run[s].writes[1].ok
     /\ WrittenTheme(s, 1).prominence_score[1] > 100
     /\ run[s].writes[2].ok

\* what the caller of generateInsights gets: a return or a throw with its message
Outcome(r) == <<r.pc, r.thrown>>

\* C20: a run in which the store rejected one write and accepted another ends
\* with an outcome for its caller that differs from the outcome of a run in
\* which every write was accepted (a plain return).
C20_PartialSuccessIsVisible ==
  \A s \in Screens :
     (/\ Ended(s)
      /\ \E i \in 1..Len(run[s].writes) : ~run[s].writes[i].ok
      /\ \E i \in 1..Len(run[s].writes) : run[s].writes[i].ok)
     => Outcome(run[s]) # <<"done", "none">>

\* the writes of the run of s that the store accepted
AcceptedWrites(s) == {i \in 1..Len(run[s].writes) : run[s].writes[i].ok}

\* C21: within one run each stored row is written at most once: no two
\* accepted writes of a run go to the same row, whatever the candidate list.
C21_RowWrittenAtMostOnce ==
  \A s \in Screens :
     \A i, j \in AcceptedWrites(s) :
        i # j => run[s].writes[i].id # run[s].writes[j].id

\* the stored themes that the run of s has not written and that share the
\* lowest score among those
TiedLowest(s) ==
  {r \in Eligible(s) : \A q \in Eligible(s) : r.prominence_score <= q.prominence_score}

\* the step replaces one of several themes that share the lowest score
ReplacesOneOfTied(s) ==
  /\ LoopStep(s)
  /\ Wrote(s)
  /\ LastWrite(s).op = "replace"
  /\ LastWrite(s).ok
  /\ Cardinality(TiedLowest(s)) >= 2
  /\ \E r \in TiedLowest(s) : r.id = LastWrite(s).id

\* C22: when several eviction-eligible themes share the lowest score, the one
\* with the earliest created_at survives: the theme replaced is not the oldest
\* of the tied themes.
C22_OldestOfTiedSurvives ==
  [][\A s \in Screens :
       ReplacesOneOfTied(s) =>
         \E r \in TiedLowest(s) :
            \E q \in TiedLowest(s) : r.id = LastWrite(s).id /\ q.created_at < r.created_at]_vars

\* C22, as the code has it: of the tied themes the one with the earliest
\* created_at is the one replaced.
C22_OldestOfTiedIsReplaced ==
  [][\A s \in Screens :
       ReplacesOneOfTied(s) =>
         \A r \in TiedLowest(s) :
            r.id = LastWrite(s).id => \A q \in TiedLowest(s) : r.created_at <= q.created_at]_vars

C22_Witness ==
  \E s \in Screens :
     /\ run[s].pc = "done"
     /\ Len(run[s].writes) = 1
     /\ run[s].writes[1].op = "replace"
     /\ run[s].writes[1].ok
     /\ run[s].writes[1].id = 1
     /\ run[s].existingThemes[Len(run[s].existingThemes)].id = 2
     /\ run[s].existingThemes[Len(run[s].existingThemes)].prominence_score =
          run[s].existingThemes[Len(run[s].existingThemes) - 1].prominence_score
     /\ \E r \in store : r.id = 2 /\ r.title = StoredTitle(2)

\* the place of theme j of the sorted list in the list as it was returned
ReceivedAt(s, j) ==
  CHOOSE k \in 1..Len(run[s].themes) : run[s].themes[k] = run[s].sortedNewThemes[j]

\* the score the sort compares
SortScore(th) == OrElse(th.prominence_score, 0)

\* C23: within one run the candidates are processed in non-increasing order
\* of score, and candidates of equal score in the order in which the
\* extraction service returned them.
C23_ProcessedByDescendingScore ==
  \A s \in Screens :
     run[s].pc \in {"loop", "done"} =>
       /\ \A i, j \in 1..Len(run[s].sortedNewThemes) :
            i < j =>
              /\ SortScore(run[s].sortedNewThemes[i]) >= SortScore(run[s].sortedNewThemes[j])
              /\ SortScore(run[s].sortedNewThemes[i]) = SortScore(run[s].sortedNewThemes[j])
                   => ReceivedAt(s, i) < ReceivedAt(s, j)
       /\ \A a, b \in 1..Len(run[s].writes) :
            a < b => run[s].writes[a].theme < run[s].writes[b].theme
       /\ \A a \in 1..Len(run[s].writes) : run[s].writes[a].theme < run[s].idx

C23_Witness ==
  \E s \in Screens :
     /\ run[s].pc = "done"
     /\ Len(run[s].themes) = 2
     /\ Len(run[s].writes) = 2
     /\ SortScore(run[s].themes[1]) < SortScore(run[s].themes[2])
     /\ WrittenTheme(s, 1) = run[s].themes[2]
     /\ WrittenTheme(s, 2) = run[s].themes[1]

\* the row with that id, before and after the step
RowBefore(id) == CHOOSE r \in store : r.id = id
RowAfter(id) == CHOOSE r \in store' : r.id = id

\* the step sends a write of that kind which the store accepts
AcceptedWrite(s, op) ==
  /\ LoopStep(s)
  /\ Wrote(s)
  /\ LastWrite(s).op = op
  /\ LastWrite(s).ok

\* C24: on a match whose write succeeds, summary, quotes and score of the
\* stored theme become the candidate's, last_updated becomes the one timestamp
\* of the run, and id, created_at and title stay as they were.
C24_UpdateKeepsIdentityAndTitle ==
  [][\A s \in Screens :
       AcceptedWrite(s, "update") =>
         /\ \E r \in store : r.id = LastWrite(s).id
         /\ \E r \in store' : r.id = LastWrite(s).id
         /\ RowAfter(LastWrite(s).id) =
              [RowBefore(LastWrite(s).id) EXCEPT
                 !.summary = CurrentTheme(s).summary,
                 !.quotes = CurrentTheme(s).quotes,
                 !.prominence_score = CurrentTheme(s).prominence_score[1],
                 !.last_updated = run[s].now]
         /\ \A i \in 1..Len(run[s].writes) :
              run[s].writes[i].ok =>
                \E r \in store : r.id = run[s].writes[i].id /\ r.last_updated = run[s].now]_vars

C24_Witness ==
  \E s \in Screens :
     /\ run[s].pc = "done"
     /\ Len(run[s].writes) = 1
     /\ run[s].writes[1].op = "update"
     /\ run[s].writes[1].ok
     /\ run[s].now < clock
     /\ \E r \in store :
          /\ r.id = run[s].writes[1].id
          /\ r.title # WrittenTheme(s, 1).title
          /\ r.summary = WrittenTheme(s, 1).summary
          /\ r.last_updated = run[s].now
          /\ r.created_at < r.last_updated

\* C25: a replacement keeps id and created_at of the replaced row, sets its
\* title, summary, quotes and score to the candidate's and last_updated to the
\* timestamp of the run, and leaves the number of themes as it was.
C25_ReplacementKeepsRowIdentity ==
  [][\A s \in Screens :
       AcceptedWrite(s, "replace") =>
         /\ \E r \in store : r.id = LastWrite(s).id
         /\ \E r \in store' : r.id = LastWrite(s).id
         /\ RowAfter(LastWrite(s).id) =
              [RowBefore(LastWrite(s).id) EXCEPT
                 !.title = CurrentTheme(s).title,
                 !.summary = CurrentTheme(s).summary,
                 !.quotes = CurrentTheme(s).quotes,
                 !.prominence_score = CurrentTheme(s).prominence_score[1],
                 !.last_updated = run[s].now]
         /\ Cardinality(store') = Cardinality(store)
         /\ Ids(store') = Ids(store)]_vars

C25_Witness ==
  \E s \in Screens :
     /\ run[s].pc = "done"
     /\ Len(run[s].writes) = 1
     /\ run[s].writes[1].op = "replace"
     /\ run[s].writes[1].ok
     /\ Cardinality(store) = ThemeLimit
     /\ \E r \in store :
          /\ r.id = run[s].writes[1].id
          /\ r.created_at = run[s].existingThemes[Len(run[s].existingThemes)].created_at
          /\ r.title = WrittenTheme(s, 1).title
          /\ r.title # run[s].existingThemes[Len(run[s].existingThemes)].title
          /\ r.quotes = WrittenTheme(s, 1).quotes

\* the rows for which the run of s has sent a write, accepted or not
WrittenIds(s) == {run[s].writes[i].id : i \in 1..Len(run[s].writes)}

\* C26: a stored theme that a run neither matched with a candidate nor chose
\* as the target of a replacement has every field after the run as it was
\* when the run read it.
C26_UnwrittenThemesAreUnchanged ==
  \A s \in Screens :
     run[s].pc \in {"loop", "done"} =>
       \A k \in 1..Len(run[s].existingThemes) :
          run[s].existingThemes[k].id \notin WrittenIds(s) =>
            run[s].existingThemes[k] \in store

C26_Witness ==
  \E s \in Screens :
     /\ run[s].pc = "done"
     /\ Len(run[s].existingThemes) = ThemeLimit
     /\ Len(run[s].writes) = 2
     /\ run[s].writes[1].ok /\ run[s].writes[1].op = "update"
     /\ run[s].writes[2].ok /\ run[s].writes[2].op = "replace"
     /\ run[s].writes[1].id # run[s].writes[2].id
     /\ Cardinality({k \in 1..ThemeLimit : run[s].existingThemes[k] \in store}) = ThemeLimit - 2

\* the Monday of the week of day d, a week running from Monday to Sunday
MondayOf(d) == CHOOSE m \in (d - DaysPerWeek + 1)..d : GetDay(m) = Monday

\* the user has a theme that was last updated in the week of that day
UpdatedInWeekOf(u, today) ==
  \E r \in ThemesOf(u) : r.last_updated >= MondayOf(today)

\* C27: insightsGeneratedThisWeek answers true exactly when the most recent
\* last_updated of the user's themes is at or after Monday 00:00 of the
\* current week, on every day of the week, a Sunday included, and false when
\* the user has no theme; the screen shows true only on such an answer.
C27_WeekStartsOnMonday ==
  /\ \A u \in Users :
       InsightsGeneratedThisWeek(store, u, clock) = UpdatedInWeekOf(u, clock)
  /\ \A s \in Screens :
       generatedThisWeek[s] => UpdatedInWeekOf(user[s], clock)

C27_Witness ==
  /\ GetDay(clock) = 0
  /\ ThemesOf("u1") # {}
  /\ \A r \in ThemesOf("u1") : r.last_updated <= clock - DaysPerWeek + 1
  /\ \E r \in ThemesOf("u1") : r.last_updated = clock - DaysPerWeek + 1
  /\ ~checkPending["s1"]
  /\ generatedThisWeek["s1"]

\* the step in which generateInsights of screen s throws
RunThrows(s) == run[s].pc # "failed" /\ run'[s].pc = "failed"

\* C28: when generateInsights throws, handleGenerateInsights recovers: the
\* handler ends, generatedThisWeek is not set and generating is false
\* afterwards; and after every press, whether the run succeeds or fails,
\* generating returns to false at some time.
C28_HandlerRecovers ==
  /\ [][\A s \in Screens :
          RunThrows(s) =>
            /\ handler'[s] = "idle"
            /\ ~generating'[s]
            /\ generatedThisWeek'[s] = generatedThisWeek[s]]_vars
  /\ \A s \in Screens : generating[s] ~> ~generating[s]

C28_Witness ==
  \E s \in Screens :
     /\ run[s].pc = "failed"
     /\ run[s].thrown = "TypeError"
     /\ Len(run[s].writes) = 1
     /\ handler[s] = "idle"
     /\ ~generating[s]
     /\ ~generatedThisWeek[s]

\* C29: the stored themes of a user have pairwise distinct lower-cased
\* titles after a run when they had before it, whatever the candidate list,
\* two candidates whose titles differ in case only included.
C29_TitlesStayDistinct ==
  \A u \in Users :
     \A r, q \in ThemesOf(u) :
        r.id # q.id => ToLowerCase(r.title) # ToLowerCase(q.title)

\* the user of screen s has a stored theme of that title
Stored(s, title) == \E r \in ThemesOf(user[s]) : r.title = title

\* C30: at the end of a run in which every write succeeded, when an
\* unmatched candidate is in the store by its title, every unmatched
\* candidate of strictly higher score is in the store too.
C30_HigherCandidateIsKeptFirst ==
  \A s \in Screens :
     CleanRun(run[s]) =>
       \A i, j \in UnmatchedThemes(s) :
          (/\ SortScore(run[s].sortedNewThemes[i]) > SortScore(run[s].sortedNewThemes[j])
           /\ Stored(s, run[s].sortedNewThemes[j].title))
          => Stored(s, run[s].sortedNewThemes[i].title)

====
